---------------------------- MODULE Spec2Model ----------------------------
(***************************************************************************)
(* Model of fairport/util/util.h: the byte-range file primitive            *)
(* (fairport::file), the FILETIME <-> time_t conversions, the VT_DATE      *)
(* stubs and test_bit.                                                     *)
(*                                                                         *)
(* 64-bit quantities (ulonglong offsets, filetimes, a 64-bit time_t) do    *)
(* not fit TLC's integers.  They are kept as their 16 hexadecimal digits,  *)
(* least significant first, and the arithmetic of the code is done digit   *)
(* by digit, modulo 2^64.                                                  *)
(***************************************************************************)
EXTENDS Integers, Sequences, FiniteSets, TLC

Min(a, b) == IF a <= b THEN a ELSE b

RECURSIVE Pow(_, _)
Pow(b, e) == IF e = 0 THEN 1 ELSE b * Pow(b, e - 1)

(***************************************************************************)
(* ulonglong: unsigned 64-bit integers as 16 hexadecimal digits.           *)
(***************************************************************************)
Digits == 1..16

\* The ulonglong with the value n, for 0 <= n < 2^31.
ToU64(n) ==
    [i \in Digits |-> IF i <= 8 THEN (n \div Pow(16, i - 1)) % 16 ELSE 0]

\* Whether the value of a is below 2^31, and then that value.
IsSmall(a) == (\A i \in 9..16 : a[i] = 0) /\ a[8] < 8

RECURSIVE SmallFrom(_, _)
SmallFrom(a, i) == IF i > 8 THEN 0 ELSE a[i] + 16 * SmallFrom(a, i + 1)
ToNat(a) == SmallFrom(a, 1)

\* The ulonglong 2^k, 0 <= k < 64.
Pow2U64(k) == [i \in Digits |-> IF i = (k \div 4) + 1 THEN Pow(2, k % 4) ELSE 0]

\* a + b modulo 2^64: the digits from digit i on, c being the carry into it.
RECURSIVE AddFrom(_, _, _, _)
AddFrom(a, b, i, c) ==
    IF i > 16 THEN <<>>
    ELSE <<(a[i] + b[i] + c) % 16>>
         \o AddFrom(a, b, i + 1, (a[i] + b[i] + c) \div 16)
AddU64(a, b) == LET sum == AddFrom(a, b, 1, 0) IN [i \in Digits |-> sum[i]]

\* Two's complement, and a - b modulo 2^64.
NotU64(a) == [i \in Digits |-> 15 - a[i]]
NegU64(a) == AddU64(NotU64(a), ToU64(1))
SubU64(a, b) == AddU64(a, NegU64(b))

\* a * m modulo 2^64 for a small multiplier m (m < 2^27).
RECURSIVE MulFrom(_, _, _, _)
MulFrom(a, m, i, c) ==
    IF i > 16 THEN <<>>
    ELSE <<(a[i] * m + c) % 16>> \o MulFrom(a, m, i + 1, (a[i] * m + c) \div 16)
MulU64(a, m) ==
    LET product == MulFrom(a, m, 1, 0) IN [i \in Digits |-> product[i]]

\* Unsigned a / d and a % d for a small divisor d (d < 2^27): long division
\* from the most significant digit; DivRem(a, d, i) is the remainder of the
\* digits above and including i.
RECURSIVE DivRem(_, _, _)
DivRem(a, d, i) ==
    IF i > 16 THEN 0 ELSE (DivRem(a, d, i + 1) * 16 + a[i]) % d
DivU64(a, d) == [i \in Digits |-> (DivRem(a, d, i + 1) * 16 + a[i]) \div d]
ModU64(a, d) == DivRem(a, d, 1)

\* Unsigned a < b: decided at the most significant digit that differs.
RECURSIVE LessFrom(_, _, _)
LessFrom(a, b, i) ==
    IF i = 0 THEN FALSE
    ELSE IF a[i] # b[i] THEN a[i] < b[i]
    ELSE LessFrom(a, b, i - 1)
LessU64(a, b) == LessFrom(a, b, 16)
LeqU64(a, b) == ~LessU64(b, a)

\* The sign bit of the value read as a signed 64-bit integer.
IsNegative64(a) == a[16] >= 8


\* The largest signed 64-bit value, 2^63 - 1.
INT64_MAX == NotU64(Pow2U64(63))

(***************************************************************************)
(* Bit operations on small unsigned values.                                *)
(***************************************************************************)
RECURSIVE BitAnd(_, _)
BitAnd(a, b) ==
    IF a = 0 \/ b = 0 THEN 0
    ELSE (a % 2) * (b % 2) + 2 * BitAnd(a \div 2, b \div 2)

ShiftRight(a, k) == a \div Pow(2, k)
ShiftLeft(a, k) == a * Pow(2, k)

(***************************************************************************)
(* Bounds of the model.                                                    *)
(***************************************************************************)
\* File sizes 0..MaxFileSize, small offsets 0..MaxOffset, buffers of
\* 0..MaxLen bytes.
MaxFileSize == 2
MaxOffset == 3
MaxLen == 2
\* Whole seconds 0..MaxSeconds after (and before) the Unix epoch.
MaxSeconds == 3
\* Conversions applied one after the other to one value.
MaxSteps == 2
\* Bytes of the buffer handed to test_bit.
BufLen == 2
\* Threads calling read on one file object.
MaxThreads == 2
\* File objects, and opens that succeed.
MaxObjects == 3
MaxHandles == 2

VARIABLES
    platform,   \* the build: decides the width of the seek call's offset
    disk,       \* the bytes of the file on disk; its size is Len(disk)
    opened,     \* history: the bytes of the file when it was opened
    fpos,       \* the position of the stream m_pfile (a ulonglong)
    call,       \* the last file::read / file::write call, whether it found
                \* the stream at position 0, and its result
    thr,        \* per thread: the file::read call it is executing
    objs,       \* per file object: its lifetime state, m_pfile, m_filename
    handles,    \* per FILE handle: unopened, open or closed
    nullFlush,  \* number of fflush(NULL) calls
    badClose,   \* number of fclose calls on NULL or on a closed handle
    lastThrow,  \* what the last constructor call threw, if anything
    tval,       \* the time value being converted and how it came about
    bval,       \* the last test_bit call and its result
    running     \* FALSE once the process has been aborted

fileVars == <<platform, disk, opened, fpos, call>>
concVars == <<thr>>
lifeVars == <<objs, handles, nullFlush, badClose, lastThrow>>
timeVars == <<tval>>
bitVars == <<bval>>
vars == <<platform, disk, opened, fpos, call, thr, objs, handles, nullFlush,
          badClose, lastThrow, tval, bval, running>>

NULL == 0

(***************************************************************************)
(* Time conversions (util.h, filetime_to_time_t and time_t_to_filetime).   *)
(* time_t is taken as the signed 64-bit integer it is with MSVC and on     *)
(* LP64 hosts; a time_t is kept as its two's complement bit pattern.       *)
(***************************************************************************)
\* ulonglong jan1970 = 116444736000000000ULL  (116444736 * 10^9)
JAN1970 == MulU64(MulU64(ToU64(116444736), 10000000), 100)

\* Whether the signed product t * m leaves the range of a signed 64-bit
\* integer (m > 0): undefined behaviour in C++.
SignedMulOverflows(t, m) ==
    IF IsNegative64(t)
    THEN LessU64(DivU64(Pow2U64(63), m), NegU64(t))
    ELSE LessU64(DivU64(INT64_MAX, m), t)

\* A faulty variant: the epoch is not subtracted.
filetime_to_time_t_no_epoch(filetime) ==
    [outcome |-> "value", value |-> DivU64(filetime, 10000000)]

\* return (filetime - jan1970) / 10000000;
\* Unsigned subtraction (modulo 2^64) and unsigned division; the quotient is
\* below 2^63, so its conversion to time_t keeps the value.
filetime_to_time_t(filetime) ==
    [outcome |-> "value", value |-> DivU64(SubU64(filetime, JAN1970), 10000000)]

\* return (time * 10000000) + jan1970;
\* The product is a signed time_t product; the sum is unsigned (the product
\* is converted to ulonglong).  The set of results the call can have: when
\* the product overflows, the build decides between the wrapped product and
\* a trap.
time_t_to_filetime(time) ==
    LET wrapped == [outcome |-> "value",
                    value |-> AddU64(MulU64(time, 10000000), JAN1970)]
    IN  IF SignedMulOverflows(time, 10000000)
        THEN {wrapped, [outcome |-> "trap", value |-> time]}
        ELSE {wrapped}

\* A faulty variant: the stub returns a time.
vt_date_to_time_t_returns(vt_time) == [outcome |-> "value", value |-> ToU64(0)]

\* throw not_implemented("vt_date_to_time_t");   (both stubs)
vt_date_to_time_t(vt_time) == [outcome |-> "not_implemented", value |-> vt_time]
time_t_to_vt_date(time) == [outcome |-> "not_implemented", value |-> time]

\* Inputs.  time_t values: the seconds around the epoch, the filetime origin
\* (1601) and the second before it, the ends of the range whose tick count
\* fits, and the last time_t.
AllOnes == NotU64(ToU64(0))
LastSignedSecond == DivU64(INT64_MAX, 10000000)
LastTickSecond == DivU64(SubU64(AllOnes, JAN1970), 10000000)
FirstTickSecond == NegU64(DivU64(JAN1970, 10000000))
TimeInputs ==
    {ToU64(k) : k \in 0..MaxSeconds}
    \cup {NegU64(ToU64(k)) : k \in 1..MaxSeconds}
    \cup {FirstTickSecond, SubU64(FirstTickSecond, ToU64(1)),
          LastSignedSecond, AddU64(LastSignedSecond, ToU64(1)),
          LastTickSecond, AddU64(LastTickSecond, ToU64(1)),
          INT64_MAX}

\* The first filetime whose seconds since 1970, times 10000000, overflow a
\* signed 64-bit integer: jan1970 + (floor((2^63 - 1) / 10^7) + 1) * 10^7
\* = 9339816772860000000.
TickLimit ==
    AddU64(JAN1970, MulU64(AddU64(LastSignedSecond, ToU64(1)), 10000000))

\* filetime values: whole seconds since 1970 with 0, 1 and 9999999 ticks
\* more, values before 1970, and the top of the range.
FiletimeInputs ==
    {AddU64(JAN1970, AddU64(MulU64(ToU64(k), 10000000), ToU64(r))) :
        k \in 0..MaxSeconds, r \in {0, 1, 9999999}}
    \cup {ToU64(0), SubU64(JAN1970, ToU64(1)), SubU64(JAN1970, ToU64(10000000)),
          INT64_MAX, SubU64(TickLimit, ToU64(1)), TickLimit, AllOnes}

\* VT_DATE values: doubles as their 64 bits, given by the sign and exponent
\* bits: 0.0, 0.5, 1.0, 2.0, 32768.0, -1.0, -2.0, infinity.
DoubleBits(top) ==
    [i \in Digits |-> IF i >= 14 THEN (top \div Pow(16, i - 14)) % 16 ELSE 0]
VtDateInputs ==
    {DoubleBits(top) : top \in {0, 1022, 1023, 1024, 1038, 3071, 3072, 2047}}

TimeValue(kind, v) ==
    [kind |-> kind, value |-> v, originKind |-> kind, origin |-> v,
     steps |-> 0, fn |-> "none", outcome |-> "value"]

TimeIdle == TimeValue("time_t", ToU64(0))

TimeInit ==
    tval \in {TimeValue("time_t", t) : t \in TimeInputs}
        \cup {TimeValue("filetime", f) : f \in FiletimeInputs}
        \cup {TimeValue("vt_date", v) : v \in VtDateInputs}

Converted(fn, kind, r) ==
    [tval EXCEPT !.fn = fn, !.outcome = r.outcome, !.value = r.value,
                 !.kind = IF r.outcome = "value" THEN kind ELSE @,
                 !.steps = @ + 1]

CanConvert(kind) ==
    tval.kind = kind /\ tval.outcome = "value" /\ tval.steps < MaxSteps

FiletimeToTimeT ==
    /\ CanConvert("filetime")
    /\ tval' = Converted("filetime_to_time_t", "time_t",
                         filetime_to_time_t(tval.value))
    /\ UNCHANGED <<fileVars, concVars, lifeVars, bitVars, running>>

TimeTToFiletime ==
    /\ CanConvert("time_t")
    /\ \E r \in time_t_to_filetime(tval.value) :
           tval' = Converted("time_t_to_filetime", "filetime", r)
    /\ UNCHANGED <<fileVars, concVars, lifeVars, bitVars, running>>

VtDateToTimeT ==
    /\ CanConvert("vt_date")
    /\ tval' = Converted("vt_date_to_time_t", "time_t",
                         vt_date_to_time_t(tval.value))
    /\ UNCHANGED <<fileVars, concVars, lifeVars, bitVars, running>>

TimeTToVtDate ==
    /\ CanConvert("time_t")
    /\ tval' = Converted("time_t_to_vt_date", "vt_date",
                         time_t_to_vt_date(tval.value))
    /\ UNCHANGED <<fileVars, concVars, lifeVars, bitVars, running>>

(***************************************************************************)
(* test_bit (util.h).                                                      *)
(***************************************************************************)
\* A faulty variant: the mask is 1 << (bit & 7), least significant bit first.
test_bit_lsb_first(pbytes, bit) ==
    BitAnd(pbytes[ShiftRight(bit, 3) + 1], ShiftLeft(1, BitAnd(bit, 7))) # 0

\* return (*(pbytes + (bit >> 3)) & (0x80 >> (bit & 7))) != 0;
\* pbytes is a 1-based sequence here, so *(pbytes + k) is pbytes[k + 1].
test_bit(pbytes, bit) ==
    BitAnd(pbytes[ShiftRight(bit, 3) + 1], ShiftRight(128, BitAnd(bit, 7))) # 0

\* Byte values the buffers are filled with: no bit, each end bit, mixed
\* patterns, all bits.
ByteSamples == {0, 1, 128, 165, 90, 255}
Buffers == [1..BufLen -> ByteSamples]

BitIdle == [called |-> FALSE, pbytes |-> [i \in 1..BufLen |-> 0], bit |-> 0,
            result |-> FALSE]

\* The arguments of the call to come.
BitArgs ==
    bval \in [called : {FALSE}, pbytes : Buffers, bit : 0..(8 * BufLen - 1),
              result : {FALSE}]

TestBit ==
    /\ ~bval.called
    /\ bval' = [bval EXCEPT !.called = TRUE,
                            !.result = test_bit(bval.pbytes, bval.bit)]
    /\ UNCHANGED <<fileVars, concVars, lifeVars, timeVars, running>>

(***************************************************************************)
(* fairport::file: read and write (util.h).                                *)
(***************************************************************************)
\* The builds, by the width of the seek call's signed offset: "seek64" is
\* MSVC (_fseeki64, an __int64 offset) and any compiler whose long has 64
\* bits (fseek on LP64); "seek32" is any other compiler whose long has 32
\* bits (fseek on ILP32, and on LLP64 without MSVC).
Platforms == {"seek64", "seek32"}
SeekBits(p) == IF p = "seek32" THEN 32 ELSE 64

\* const char* mode = "rb";
OpenMode == "rb"

\* The conversion of the ulonglong offset to the seek call's signed offset
\* type of the given width, as a sign-extended 64-bit pattern.
ToSeekOffset(bits, offset) ==
    IF bits = 64 THEN offset
    ELSE [i \in Digits |-> IF i <= 8 THEN offset[i]
                           ELSE IF offset[8] >= 8 THEN 15 ELSE 0]

\* A faulty variant: the seek is relative to the position (SEEK_CUR).
FseekCur(bits, pos, offset) ==
    LET off == ToSeekOffset(bits, offset)
    IN  IF IsNegative64(off) THEN [rc |-> 0 - 1, pos |-> pos]
        ELSE [rc |-> 0, pos |-> AddU64(pos, off)]

\* fseek / _fseeki64 (stream, offset, SEEK_SET): a negative offset fails
\* and leaves the position alone; any other offset, also one past the end
\* of the file, becomes the position.
Fseek(bits, pos, offset) ==
    LET off == ToSeekOffset(bits, offset)
    IN  IF IsNegative64(off) THEN [rc |-> 0 - 1, pos |-> pos]
        ELSE [rc |-> 0, pos |-> off]

\* The bytes of the file at [pos, pos + n), as far as the file has them.
Available(file, pos) ==
    IF IsSmall(pos) /\ ToNat(pos) < Len(file) THEN Len(file) - ToNat(pos) ELSE 0

\* fread(&buffer[0], 1, n, stream): reads the bytes the file has from the
\* position on, at most n, into the front of the buffer and advances the
\* position by as many.
Fread(file, pos, buffer) ==
    LET count == Min(Len(buffer), Available(file, pos))
    IN  [count |-> count,
         buffer |-> [i \in 1..Len(buffer) |->
                        IF i <= count THEN file[ToNat(pos) + i] ELSE buffer[i]],
         pos |-> AddU64(pos, ToU64(count))]

\* fwrite(&buffer[0], 1, n, stream): a stream opened for reading only takes
\* no byte; a writable one stores the bytes at the position, growing the
\* file when they reach past its end.
Fwrite(mode, file, pos, buffer) ==
    IF mode = "rb" \/ Len(buffer) = 0 \/ ~IsSmall(pos)
    THEN [count |-> 0, file |-> file, pos |-> pos]
    ELSE LET p == ToNat(pos)
             size == IF p + Len(buffer) > Len(file) THEN p + Len(buffer)
                     ELSE Len(file)
         IN  [count |-> Len(buffer),
              file |-> [i \in 1..size |->
                           IF i > p /\ i <= p + Len(buffer) THEN buffer[i - p]
                           ELSE IF i <= Len(file) THEN file[i] ELSE 0],
              pos |-> AddU64(pos, ToU64(Len(buffer)))]

\* &buffer[0] on an empty vector is undefined: the build either yields an
\* address that is never dereferenced or aborts in a checked operator[].
SubscriptOutcomes(buffer) ==
    IF Len(buffer) = 0 THEN {"address", "abort"} ELSE {"address"}

\* size_t file::read(std::vector<byte>& buffer, ulonglong offset) const
\* ub is the outcome of &buffer[0].
read(bits, file, pos, buffer, offset, ub) ==
    LET seek == Fseek(bits, pos, offset)
        got == Fread(file, seek.pos, buffer)
    IN  IF seek.rc # 0
        THEN [outcome |-> "out_of_range", what |-> "fseek failed", ret |-> 0,
              buffer |-> buffer, pos |-> seek.pos, sought |-> seek.pos,
              seekrc |-> seek.rc, file |-> file]
        ELSE IF ub = "abort"
        THEN [outcome |-> "abort", what |-> "", ret |-> 0,
              buffer |-> buffer, pos |-> seek.pos, sought |-> seek.pos,
              seekrc |-> seek.rc, file |-> file]
        ELSE IF got.count # Len(buffer)
        THEN [outcome |-> "out_of_range", what |-> "fread failed", ret |-> 0,
              buffer |-> got.buffer, pos |-> got.pos, sought |-> seek.pos,
              seekrc |-> seek.rc, file |-> file]
        ELSE [outcome |-> "ok", what |-> "", ret |-> got.count,
              buffer |-> got.buffer, pos |-> got.pos, sought |-> seek.pos,
              seekrc |-> seek.rc, file |-> file]

\* size_t file::write(const std::vector<byte>& buffer, ulonglong offset)
write(bits, file, pos, buffer, offset, ub) ==
    LET seek == Fseek(bits, pos, offset)
        put == Fwrite(OpenMode, file, seek.pos, buffer)
    IN  IF seek.rc # 0
        THEN [outcome |-> "out_of_range", what |-> "fseek failed", ret |-> 0,
              buffer |-> buffer, pos |-> seek.pos, sought |-> seek.pos,
              seekrc |-> seek.rc, file |-> file]
        ELSE IF ub = "abort"
        THEN [outcome |-> "abort", what |-> "", ret |-> 0,
              buffer |-> buffer, pos |-> seek.pos, sought |-> seek.pos,
              seekrc |-> seek.rc, file |-> file]
        ELSE IF put.count # Len(buffer)
        THEN [outcome |-> "out_of_range", what |-> "fwrite failed", ret |-> 0,
              buffer |-> buffer, pos |-> put.pos, sought |-> seek.pos,
              seekrc |-> seek.rc, file |-> put.file]
        ELSE [outcome |-> "ok", what |-> "", ret |-> put.count,
              buffer |-> buffer, pos |-> put.pos, sought |-> seek.pos,
              seekrc |-> seek.rc, file |-> put.file]

\* The file of the given size: byte number p (from 0) is 17 * (p + 1), so
\* every position holds a different, non-zero byte.
DiskOfSize(size) == [i \in 1..size |-> 17 * i]
Disks == {DiskOfSize(s) : s \in 0..MaxFileSize}

\* Offsets: the small ones, the same ones plus 2^32, the first offsets past
\* the signed 32-bit and 64-bit ranges, and the last one.
SmallOffsets == {ToU64(k) : k \in 0..MaxOffset}
OffsetInputs ==
    SmallOffsets
    \cup {AddU64(Pow2U64(32), ToU64(k)) : k \in 0..MaxOffset}
    \cup {Pow2U64(31), Pow2U64(63), AllOnes}

\* A buffer of n bytes as the caller hands it over: n zero bytes for a
\* read, n bytes 0xEE for a write.
ReadBuffer(n) == [i \in 1..n |-> 0]
WriteBuffer(n) == [i \in 1..n |-> 238]

NoCall == [op |-> "none", offset |-> ToU64(0), n |-> 0, ub |-> "address",
           first |-> TRUE, outcome |-> "none", what |-> "", ret |-> 0,
           buffer |-> <<>>, sought |-> ToU64(0), seekrc |-> 0]

Called(op, offset, n, ub, r) ==
    [op |-> op, offset |-> offset, n |-> n, ub |-> ub,
     first |-> (fpos = ToU64(0)),
     outcome |-> r.outcome, what |-> r.what, ret |-> r.ret,
     buffer |-> r.buffer, sought |-> r.sought, seekrc |-> r.seekrc]

FileInit ==
    /\ platform \in Platforms
    /\ disk \in Disks
    /\ opened = disk
    /\ fpos = ToU64(0)
    /\ call = NoCall

FileIdle ==
    /\ platform = "seek64"
    /\ disk = DiskOfSize(MaxFileSize)
    /\ opened = disk
    /\ fpos = ToU64(0)
    /\ call = NoCall

Read ==
    /\ running
    /\ \E offset \in OffsetInputs, n \in 0..MaxLen :
       \E ub \in SubscriptOutcomes(ReadBuffer(n)) :
       \E r \in {read(SeekBits(platform), disk, fpos, ReadBuffer(n), offset, ub)} :
              /\ call' = Called("read", offset, n, ub, r)
              /\ fpos' = r.pos
              /\ disk' = r.file
              /\ running' = (r.outcome # "abort")
    /\ UNCHANGED <<platform, opened, concVars, lifeVars, timeVars, bitVars>>

Write ==
    /\ running
    /\ \E offset \in OffsetInputs, n \in 0..MaxLen :
       \E ub \in SubscriptOutcomes(WriteBuffer(n)) :
       \E r \in {write(SeekBits(platform), disk, fpos, WriteBuffer(n), offset, ub)} :
              /\ call' = Called("write", offset, n, ub, r)
              /\ fpos' = r.pos
              /\ disk' = r.file
              /\ running' = (r.outcome # "abort")
    /\ UNCHANGED <<platform, opened, concVars, lifeVars, timeVars, bitVars>>

(***************************************************************************)
(* Several threads calling file::read on one file object.  The class holds *)
(* no lock: each C library call (fseek, fread) is one step on the shared   *)
(* stream m_pfile, and the steps of different threads interleave.          *)
(***************************************************************************)
Threads == 1..MaxThreads

ThreadIdle == [pc |-> "idle", offset |-> ToU64(0), n |-> 0, buffer |-> <<>>,
               outcome |-> "none", ret |-> 0]

ConcIdle == thr = [t \in Threads |-> ThreadIdle]

\* A thread enters file::read(buffer, offset).
CallRead(t) ==
    /\ running
    /\ thr[t].pc = "idle"
    /\ \E offset \in SmallOffsets, n \in 1..MaxLen :
           thr' = [thr EXCEPT ![t] = [pc |-> "seek", offset |-> offset, n |-> n,
                                      buffer |-> ReadBuffer(n),
                                      outcome |-> "none", ret |-> 0]]
    /\ UNCHANGED <<fileVars, lifeVars, timeVars, bitVars, running>>

\* if(fseek(m_pfile, offset, SEEK_SET) != 0) throw std::out_of_range(...)
SeekStep(t) ==
    /\ thr[t].pc = "seek"
    /\ LET seek == Fseek(SeekBits(platform), fpos, thr[t].offset)
       IN  /\ fpos' = seek.pos
           /\ thr' = [thr EXCEPT ![t].pc = IF seek.rc # 0 THEN "done" ELSE "fread",
                                 ![t].outcome = IF seek.rc # 0 THEN "out_of_range"
                                                ELSE "none"]
    /\ UNCHANGED <<platform, disk, opened, call, lifeVars, timeVars, bitVars, running>>

\* size_t read = fread(...); if(read != buffer.size()) throw ...; return read;
FreadStep(t) ==
    /\ thr[t].pc = "fread"
    /\ LET got == Fread(disk, fpos, thr[t].buffer)
       IN  /\ fpos' = got.pos
           /\ thr' = [thr EXCEPT ![t].pc = "done",
                                 ![t].buffer = got.buffer,
                                 ![t].outcome = IF got.count # thr[t].n
                                                THEN "out_of_range" ELSE "ok",
                                 ![t].ret = IF got.count # thr[t].n THEN 0
                                            ELSE got.count]
    /\ UNCHANGED <<platform, disk, opened, call, lifeVars, timeVars, bitVars, running>>

\* The caller takes the result; the thread may call again.
Return(t) ==
    /\ thr[t].pc = "done"
    /\ thr' = [thr EXCEPT ![t] = ThreadIdle]
    /\ UNCHANGED <<fileVars, lifeVars, timeVars, bitVars, running>>

(***************************************************************************)
(* fairport::file: construction, move and destruction (util.h).            *)
(***************************************************************************)
Objects == 1..MaxObjects
Handles == 1..MaxHandles
Filenames == {"a.pst", "b.pst"}

NoObject == [st |-> "none", m_pfile |-> NULL, m_filename |-> ""]

LifeIdle ==
    /\ objs = [o \in Objects |-> NoObject]
    /\ handles = [h \in Handles |-> "unopened"]
    /\ nullFlush = 0
    /\ badClose = 0
    /\ lastThrow = "none"

\* fopen: the next unused FILE, or NULL when the open fails.
Fopen(hs, succeeds) ==
    IF succeeds /\ \E h \in Handles : hs[h] = "unopened"
    THEN CHOOSE h \in Handles :
            hs[h] = "unopened" /\ \A g \in Handles : hs[g] = "unopened" => h <= g
    ELSE NULL

\* file::file(const std::wstring& filename)
Construct(o) ==
    /\ running
    /\ objs[o].st = "none"
    /\ \E filename \in Filenames, succeeds \in BOOLEAN :
          LET pfile == Fopen(handles, succeeds)
          IN  IF pfile = NULL
              THEN /\ lastThrow' = "runtime_error"
                   /\ UNCHANGED <<objs, handles>>
              ELSE /\ lastThrow' = "none"
                   /\ handles' = [handles EXCEPT ![pfile] = "open"]
                   /\ objs' = [objs EXCEPT ![o] = [st |-> "alive",
                                                   m_pfile |-> pfile,
                                                   m_filename |-> filename]]
    /\ UNCHANGED <<nullFlush, badClose, fileVars, concVars, timeVars, bitVars,
                   running>>

\* A moved-from std::wstring is valid but unspecified: empty or unchanged.
MovedFrom(name) == {"", name}

\* file::file(file&& other)
MoveConstruct(o, other) ==
    /\ running
    /\ objs[o].st = "none"
    /\ objs[other].st = "alive"
    /\ \E left \in MovedFrom(objs[other].m_filename) :
          objs' = [objs EXCEPT ![o] = [st |-> "alive",
                                       m_pfile |-> objs[other].m_pfile,
                                       m_filename |-> objs[other].m_filename],
                               ![other].m_pfile = NULL,
                               ![other].m_filename = left]
    /\ UNCHANGED <<handles, nullFlush, badClose, lastThrow, fileVars, concVars,
                   timeVars, bitVars, running>>

\* file& file::operator=(file&& other): swaps both members.
MoveAssign(o, other) ==
    /\ running
    /\ objs[o].st = "alive"
    /\ objs[other].st = "alive"
    /\ objs' = [objs EXCEPT ![o].m_pfile = objs[other].m_pfile,
                            ![o].m_filename = objs[other].m_filename,
                            ![other].m_pfile = objs[o].m_pfile,
                            ![other].m_filename = objs[o].m_filename]
    /\ UNCHANGED <<handles, nullFlush, badClose, lastThrow, fileVars, concVars,
                   timeVars, bitVars, running>>

\* file::~file(): fflush(m_pfile); fclose(m_pfile);
\* fclose of NULL or of a closed FILE is undefined: the process crashes or
\* the call returns an error that the destructor ignores.
Destroy(o) ==
    /\ running
    /\ objs[o].st = "alive"
    /\ LET pfile == objs[o].m_pfile
           valid == pfile # NULL /\ handles[pfile] = "open"
       IN  /\ objs' = [objs EXCEPT ![o].st = "destroyed"]
           /\ nullFlush' = IF pfile = NULL THEN nullFlush + 1 ELSE nullFlush
           /\ badClose' = IF valid THEN badClose ELSE badClose + 1
           /\ handles' = IF valid THEN [handles EXCEPT ![pfile] = "closed"]
                         ELSE handles
           /\ \E crashes \in BOOLEAN :
                 running' = IF valid THEN running ELSE ~crashes
    /\ UNCHANGED <<lastThrow, fileVars, concVars, timeVars, bitVars>>

(***************************************************************************)
(* Specifications.                                                         *)
(***************************************************************************)
\* One thread calling read and write on one open file object.
Init ==
    /\ FileInit /\ ConcIdle /\ LifeIdle
    /\ tval = TimeIdle /\ bval = BitIdle /\ running = TRUE
Next == Read \/ Write
Spec == Init /\ [][Next]_vars

\* Several threads calling read on one open file object.
ConcNext ==
    \E t \in Threads : CallRead(t) \/ SeekStep(t) \/ FreadStep(t) \/ Return(t)
ConcSpec == Init /\ [][ConcNext]_vars

\* File objects being constructed, moved and destroyed.
LifeInit ==
    /\ FileIdle /\ ConcIdle /\ LifeIdle
    /\ tval = TimeIdle /\ bval = BitIdle /\ running = TRUE
LifeNext ==
    \E o \in Objects :
        \/ Construct(o)
        \/ Destroy(o)
        \/ \E other \in Objects : MoveAssign(o, other)
        \/ \E other \in Objects \ {o} : MoveConstruct(o, other)
LifeSpec == LifeInit /\ [][LifeNext]_vars

\* The time conversions applied to a value, one after the other.
TimeSpecInit ==
    /\ FileIdle /\ ConcIdle /\ LifeIdle
    /\ TimeInit /\ bval = BitIdle /\ running = TRUE
TimeNext == FiletimeToTimeT \/ TimeTToFiletime \/ VtDateToTimeT \/ TimeTToVtDate
TimeSpec == TimeSpecInit /\ [][TimeNext]_vars

\* test_bit called on a buffer.
BitInit ==
    /\ FileIdle /\ ConcIdle /\ LifeIdle
    /\ tval = TimeIdle /\ BitArgs /\ running = TRUE
BitSpec == BitInit /\ [][TestBit]_vars

(***************************************************************************)
(* Properties.                                                             *)
(***************************************************************************)
\* offset + n <= size of the file, as a sum of naturals (no wrap-around).
Fits(offset, n) == IsSmall(offset) /\ ToNat(offset) + n <= Len(disk)

\* The bytes of the file at [offset, offset + n); -1 where the file has none.
DiskBytes(offset, n) ==
    [i \in 1..n |-> IF IsSmall(offset) /\ ToNat(offset) + i <= Len(disk)
                    THEN disk[ToNat(offset) + i] ELSE 0 - 1]

\* The call has returned or thrown (it did not abort the process).
Completed == call.outcome \in {"ok", "out_of_range"}

\* C1: file::read succeeds and returns n exactly when offset + n <= size,
\* and fails with out_of_range exactly when offset + n > size (n = 0
\* included).  Stated of the calls that return or throw.
C1_ReadBound ==
    (call.op = "read" /\ Completed) =>
        /\ (call.outcome = "ok" /\ call.ret = call.n) <=> Fits(call.offset, call.n)
        /\ (call.outcome = "out_of_range") <=> ~Fits(call.offset, call.n)

\* C2: under every interleaving of concurrent file::read calls, a call that
\* succeeds has filled its buffer with the file's bytes at its own offset.
C2_AtomicPositionalRead ==
    \A t \in Threads :
        (thr[t].pc = "done" /\ thr[t].outcome = "ok") =>
            thr[t].buffer = DiskBytes(thr[t].offset, thr[t].n)

\* C3: filetime_to_time_t(time_t_to_filetime(t)) = t for every time_t t.
C3_TimeRoundTrip ==
    (tval.originKind = "time_t" /\ tval.steps = 2
        /\ tval.fn = "filetime_to_time_t") =>
        (tval.outcome = "value" /\ tval.value = tval.origin)

\* C4: test_bit(pbytes, b) is the bit with mask 0x80 >> (b mod 8) of byte
\* floor(b / 8) (most significant bit first), and no other byte of the
\* buffer influences it.
C4_TestBitMsbFirst ==
    bval.called =>
        LET index == (bval.bit \div 8) + 1
            byte == bval.pbytes[index]
            mask == 128 \div Pow(2, bval.bit % 8)
        IN  /\ bval.result <=> ((byte \div mask) % 2 = 1)
            /\ \A other \in Buffers :
                  other[index] = byte => (test_bit(other, bval.bit) <=> bval.result)

\* Bit 8 of the buffer <<0x01, 0x80, ...>> has been tested and found set: it
\* is the highest bit of byte 1, while the lowest bit of byte 0 is bit 7.
C4_Witness ==
    /\ bval.called /\ bval.bit = 8 /\ bval.result
    /\ bval.pbytes[1] = 1 /\ bval.pbytes[2] = 128

\* C5: file::write succeeds and returns n when offset + n does not exceed
\* the file's size, and fails with out_of_range only when it does.  Stated
\* of the calls that return or throw.
C5_WriteBound ==
    (call.op = "write" /\ Completed) =>
        /\ Fits(call.offset, call.n) => (call.outcome = "ok" /\ call.ret = call.n)
        /\ (call.outcome = "out_of_range") => ~Fits(call.offset, call.n)

\* C6: read and write seek to the full 64-bit offset they are given on
\* every platform: a seek that succeeds is at the offset argument, and a
\* read that succeeds returns the bytes stored at that offset.
C6_FullWidthSeek ==
    call.op \in {"read", "write"} =>
        /\ call.seekrc = 0 => call.sought = call.offset
        /\ (call.op = "read" /\ call.outcome = "ok") =>
              call.buffer = DiskBytes(call.offset, call.n)

\* What the caller of file::read observes.
Observed(r) == <<r.outcome, r.what, r.ret, r.buffer>>

\* C7: after any sequence of calls, a file::read call has left the file's
\* contents and size as they were, and has returned the outcome and the
\* bytes it would have returned as the first call on the handle, wherever
\* the calls before it left the stream.
C7_ReadsLeaveNoTrace ==
    call.op = "read" =>
        /\ disk = opened
        /\ Observed(call) =
              Observed(read(SeekBits(platform), opened, ToU64(0),
                            ReadBuffer(call.n), call.offset, call.ub))

\* A read of at least one byte has succeeded on a stream that an earlier
\* call had moved away from position 0.
C7_Witness ==
    call.op = "read" /\ ~call.first /\ call.outcome = "ok" /\ call.n > 0

\* A filetime has been converted to a time_t and back.
FiletimeRoundTrip ==
    tval.originKind = "filetime" /\ tval.steps = 2
        /\ tval.fn = "time_t_to_filetime"

\* The result res of converting filetime f to seconds and back is f without
\* its sub-second part.
OnlySubSecondLost(f, res) ==
    /\ LeqU64(res, f)
    /\ LessU64(SubU64(f, res), ToU64(10000000))
    /\ (res = f) <=> (ModU64(SubU64(f, JAN1970), 10000000) = 0)

C9_VtDateNotImplemented ==
    tval.fn \in {"vt_date_to_time_t", "time_t_to_vt_date"} =>
        tval.outcome = "not_implemented"

\* vt_date_to_time_t has been called and has thrown not_implemented.
C9_Witness ==
    tval.fn = "vt_date_to_time_t" /\ tval.outcome = "not_implemented"

\* The objects alive that hold handle h.
Owners(h) == {o \in Objects : objs[o].st = "alive" /\ objs[o].m_pfile = h}

\* C10: every handle a constructor opened is owned by exactly one object
\* while it is open and by none once closed; no destructor flushes or
\* closes a null handle or closes a closed one; a failed open throws
\* runtime_error and leaves no object holding a handle.
C10_HandleOwnership ==
    /\ nullFlush = 0
    /\ badClose = 0
    /\ \A h \in Handles :
          /\ handles[h] = "open" => Cardinality(Owners(h)) = 1
          /\ handles[h] # "open" => Owners(h) = {}
    /\ \A o \in Objects : objs[o].st = "none" => objs[o].m_pfile = NULL
=============================================================================
